---- MODULE Spec2Model ----
(***************************************************************************)
(* Model of the VoiceInk-CN localization tools:                            *)
(*   smart_localize.py    SmartLocalizer  (backup / rewrite / rollback)    *)
(*   precise_localizer.py PreciseLocalizer (scan / plan / apply)           *)
(*   sync_strings.py      StringsSyncer   (collect keys / update stores)   *)
(*   master_localizer.py  MasterLocalizer (run_full_sync, generate-en)     *)
(*                                                                         *)
(* Source text is modelled as a sequence of lexical tokens.  Every regular *)
(* expression and substring operation of the source is modelled by what it *)
(* does on these tokens.  The token alphabet is                            *)
(*   IND    leading whitespace          "    "                             *)
(*   TEXT   `Text(`       BUTTON `Button(`     TITLE `title: `             *)
(*   LET    `let key = `  NSL `NSLocalizedString(`                         *)
(*   CMT    `, comment: ` RP `)`   SEMI ` ; `  NOTE `// note`   NL `\n`    *)
(*   Q(s)   the quoted literal "s"                                         *)
(***************************************************************************)
EXTENDS Naturals, Sequences, FiniteSets, TLC

VARIABLES
    disk,            \* SmartLocalizer: path -> file content (tokens) or NoFile
    backup_files,    \* SmartLocalizer.backup_files
    processed_files, \* SmartLocalizer.processed_files
    common_localizations, \* config['common_localizations'], in dict order
    lastOp,          \* the last SmartLocalizer operation and what it returned
    fault_count,     \* I/O failures injected so far
    pfiles,          \* PreciseLocalizer: project file -> list of lines
    localizable_strings, \* PreciseLocalizer.localizable_strings (its keys)
    scan_results,    \* result of scan_project
    plan,            \* result of create_replacement_plan
    pLast,           \* the last PreciseLocalizer operation
    exclude_config,  \* config['exclude_string_patterns'], config['exclude_contexts']
    smart_verdict,   \* the last call of SmartLocalizer.is_localizable_string
    strings_disk,    \* .strings path -> file content (store tokens) or NoStore
    strings_backups, \* the backup copies made of .strings files
    swift_sources,   \* content of the Swift files under VoiceInk/
    sLast            \* the last StringsSyncer / MasterLocalizer operation

smartVars == <<disk, backup_files, processed_files, common_localizations, lastOp>>
preciseVars ==
    <<pfiles, localizable_strings, scan_results, plan, pLast, exclude_config,
      smart_verdict>>
syncVars == <<strings_disk, strings_backups, swift_sources, sLast>>
vars == <<smartVars, preciseVars, fault_count, syncVars>>

----------------------------------------------------------------------------
(* Bounds of the model *)

\* at most this many entries in SmartLocalizer.backup_files per session
MaxBackups == 2
\* file contents are not rewritten beyond this many tokens
MaxContentLen == 16
\* at most this many I/O failures are injected in one behaviour
MaxFaults == 1
\* lines per hand-picked project file of the PreciseLocalizer
MaxLines == 2
\* statements per generated line
MaxSegs == 2
\* .strings files are not extended beyond this many store tokens
MaxStoreLen == 10

----------------------------------------------------------------------------
(* Tokens and generic sequence helpers *)

Tok(k) == [k |-> k, s |-> ""]
Q(s) == [k |-> "Q", s |-> s]

IndTok == Tok("IND")
TextTok == Tok("TEXT")
ButtonTok == Tok("BUTTON")
TitleTok == Tok("TITLE")
LetTok == Tok("LET")
NslTok == Tok("NSL")
CmtTok == Tok("CMT")
RpTok == Tok("RP")
SemiTok == Tok("SEMI")
NoteTok == Tok("NOTE")
NlTok == Tok("NL")

Strings == {"Save", "Stop"}

RECURSIVE Flatten(_)
Flatten(ss) == IF ss = <<>> THEN <<>> ELSE Head(ss) \o Flatten(Tail(ss))

HasTok(line, tok) == \E i \in 1..Len(line) : line[i] = tok

Range(seq) == {seq[i] : i \in 1..Len(seq)}

Prefixes(seq) == {SubSeq(seq, 1, n) : n \in 0..Len(seq)}

\* the wrapped call  NSLocalizedString("key", comment: "comment")
WrappedCall(key, comment) == <<NslTok, Q(key), CmtTok, Q(comment), RpTok>>

----------------------------------------------------------------------------
(* SmartLocalizer (smart_localize.py) *)

\* the content of a path at which no file exists
NoFile == <<Tok("NOFILE")>>

\* config['output']['backup_suffix'], default '.backup'
BackupSuffix == ".backup"

\* Paths are sequences of name components.
FileA == <<"A", ".swift">>
FileB == <<"A", ".backup", ".swift">>
TargetFiles == {FileA, FileB}

\* backup_path = f"{file_path}{backup_suffix}"
BackupPath(file_path) == file_path \o <<BackupSuffix>>

\* original_path = backup_path.replace(backup_suffix, ''): str.replace removes
\* every occurrence of the suffix, not only the trailing one
OriginalPath(backup_path) == SelectSeq(backup_path, LAMBDA c : c # BackupSuffix)

Paths ==
    TargetFiles \cup {BackupPath(f) : f \in TargetFiles}
                \cup {OriginalPath(BackupPath(f)) : f \in TargetFiles}

IsWs(tok) == tok.k \in {"IND", "NL"}

\* the first token at or after position i that is not whitespace (regex \s*)
RECURSIVE NextNonWs(_, _)
NextNonWs(content, i) ==
    IF i > Len(content) THEN Tok("EOF")
    ELSE IF IsWs(content[i]) THEN NextNonWs(content, i + 1)
    ELSE content[i]

\* re.search(r'(Button|Text|Label|Toggle|Menu)\s*\(\s*"<string>"', content)
UiContextSearch(content, string) ==
    \E i \in 1..Len(content) :
        /\ content[i] \in {TextTok, ButtonTok}
        /\ NextNonWs(content, i + 1) = Q(string)

\* re.sub(r'"<string>"(?!\s*,\s*comment:)',
\*        'NSLocalizedString("<key>", comment: "<comment>")', content)
RECURSIVE SubLocalized(_, _, _, _)
SubLocalized(content, string, key, comment) ==
    IF content = <<>> THEN <<>>
    ELSE IF Head(content) = Q(string) /\ NextNonWs(content, 2) # CmtTok
        THEN WrappedCall(key, comment)
                 \o SubLocalized(Tail(content), string, key, comment)
        ELSE <<Head(content)>>
                 \o SubLocalized(Tail(content), string, key, comment)

\* The loop of localize_file over common_localizations.items().  The inner
\* loop over the three `patterns` tests the same replacement_pattern and the
\* same substitution each time and breaks on the first change, so it changes
\* the content at most once per string.
RECURSIVE ApplyLocalizations(_, _, _)
ApplyLocalizations(content, changes, items) ==
    IF items = <<>> THEN [content |-> content, changes |-> changes]
    ELSE LET it == Head(items)
             new_content == SubLocalized(content, it.string, it.key, it.comment)
         IN IF UiContextSearch(content, it.string) /\ new_content # content
            THEN ApplyLocalizations(new_content, changes + 1, Tail(items))
            ELSE ApplyLocalizations(content, changes, Tail(items))

\* list.remove(x): removes the first occurrence
RECURSIVE RemoveFirst(_, _)
RemoveFirst(seq, x) ==
    IF seq = <<>> THEN <<>>
    ELSE IF Head(seq) = x THEN Tail(seq)
    ELSE <<Head(seq)>> \o RemoveFirst(Tail(seq), x)

\* shutil.move(backup_path, original_path) inside try/except: a missing
\* backup raises, is logged and leaves the disk as it is
MoveBackup(d, backup_path) ==
    IF d[backup_path] = NoFile THEN d
    ELSE [d EXCEPT ![OriginalPath(backup_path)] = d[backup_path],
                   ![backup_path] = NoFile]

\* the loop of rollback over self.backup_files
RECURSIVE RollbackAll(_, _)
RollbackAll(d, backups) ==
    IF backups = <<>> THEN d
    ELSE RollbackAll(MoveBackup(d, Head(backups)), Tail(backups))

\* Literals handed to is_localizable_string, with what its tests read of them
ClassifiedStrings == {"Save", "Stop", "APP_ID", "OK", "42"}

\* len(string)
StrLen(string) ==
    CASE string = "OK" -> 2
      [] string = "42" -> 2
      [] string = "APP_ID" -> 6
      [] OTHER -> 4

\* re.search(r'[a-zA-Z]', string)
HasLetter(string) == string # "42"

\* re.match(r'^[0-9\s\-_.,:;!?]+$', string)
OnlyDigitsAndPunctuation(string) == string = "42"

\* A configured exclude_string_patterns regex is modelled by its name:
\*   "constant"  ^[A-Z_]+$ , matching APP_ID and OK
StringPatternMatches(pattern, string) ==
    pattern = "constant" /\ string \in {"APP_ID", "OK"}

\* A configured exclude_contexts regex is modelled by the token it looks
\* for:  LET  let\s+\w+      NOTE  //
ContextPatternMatches(context_pattern, context) ==
    HasTok(context, Tok(context_pattern))

\* is_localizable_string(string, context)
is_localizable_string(string, context, cfg) ==
    IF \E i \in 1..Len(cfg.exclude_string_patterns) :
           StringPatternMatches(cfg.exclude_string_patterns[i], string)
    THEN FALSE
    ELSE IF \E i \in 1..Len(cfg.exclude_contexts) :
           ContextPatternMatches(cfg.exclude_contexts[i], context)
    THEN FALSE
    ELSE IF StrLen(string) < 3 THEN FALSE
    ELSE IF ~HasLetter(string) THEN FALSE
    ELSE IF OnlyDigitsAndPunctuation(string) THEN FALSE
    ELSE IF HasTok(context, NslTok) THEN FALSE
    ELSE TRUE

\* Contents of the Swift files before the first run
SmartContents ==
    { <<TextTok, Q("Save"), RpTok, NlTok, LetTok, Q("Save"), NlTok>>,
      <<LetTok, Q("Save"), NlTok>>,
      <<TextTok, Q("Save"), CmtTok, Q("Save"), RpTok, NlTok>>,
      <<ButtonTok, Q("Save"), RpTok, SemiTok, TitleTok, Q("Stop"), NlTok>> }

\* config['common_localizations']: string -> (key, comment)
SmartConfigs ==
    { << [string |-> "Save", key |-> "Save", comment |-> "Save"] >>,
      << [string |-> "Save", key |-> "save_button", comment |-> "Save button"],
         [string |-> "Stop", key |-> "stop_button", comment |-> "Stop button"] >> }

Faults == {"none", "backup", "read", "write"}

NoOp(name) ==
    [op |-> name, file |-> <<>>, fault |-> "none", pre |-> <<>>,
     changed |-> FALSE, ret |-> 0, prev |-> "none"]

SyncIdle ==
    /\ strings_disk = <<>>
    /\ strings_backups = {}
    /\ swift_sources = <<>>
    /\ sLast = <<>>

PreciseIdle ==
    /\ pfiles = <<>>
    /\ localizable_strings = {}
    /\ scan_results = <<>>
    /\ plan = <<>>
    /\ pLast = <<>>
    /\ exclude_config = <<>>
    /\ smart_verdict = <<>>

\* SmartLocalizer.__init__ on a project whose files have no backups yet
InitSmart ==
    /\ disk \in {d \in [Paths -> SmartContents \cup {NoFile}] :
                    \A p \in Paths : (d[p] = NoFile) <=> (p \notin TargetFiles)}
    /\ backup_files = <<>>
    /\ processed_files = <<>>
    /\ common_localizations \in SmartConfigs
    /\ lastOp = NoOp("init")
    /\ fault_count = 0
    /\ PreciseIdle
    /\ SyncIdle

\* SmartLocalizer.localize_file(file_path), with create_backup inlined.
\* fault names the I/O step that raises, if any:
\*   backup  shutil.copy2 raises: create_backup returns False, return 0
\*   read    open(file_path, 'r') / read raises after the backup was made
\*   write   open(file_path, 'w') / write raises: 'w' truncates the file in
\*           place, so the file is left as it was (open refused) or holding a
\*           proper prefix of the new content
LocalizeFile(file_path, fault) ==
    LET original_content == disk[file_path]
        backup_path == BackupPath(file_path)
        res == ApplyLocalizations(original_content, 0, common_localizations)
        op(ret) == [op |-> "localize", file |-> file_path, fault |-> fault,
                    pre |-> original_content,
                    changed |-> (res.content # original_content),
                    ret |-> ret, prev |-> lastOp.op]
    IN
    /\ Len(backup_files) < MaxBackups
    /\ Len(processed_files) < MaxBackups
    /\ Len(res.content) <= MaxContentLen
    /\ fault # "none" => fault_count < MaxFaults
    /\ fault_count' = IF fault = "none" THEN fault_count ELSE fault_count + 1
    /\ UNCHANGED <<common_localizations, preciseVars, syncVars>>
    /\ \/ /\ fault = "backup"
          /\ \E copied \in {disk[backup_path]} \cup Prefixes(original_content) :
                 disk' = [disk EXCEPT ![backup_path] = copied]
          /\ UNCHANGED <<backup_files, processed_files>>
          /\ lastOp' = op(0)
       \/ /\ fault = "read"
          /\ disk' = [disk EXCEPT ![backup_path] = original_content]
          /\ backup_files' = Append(backup_files, backup_path)
          /\ UNCHANGED processed_files
          /\ lastOp' = op(0)
       \/ /\ fault = "write"
          /\ res.content # original_content
          /\ \E written \in {original_content}
                              \cup (Prefixes(res.content) \ {res.content}) :
                 disk' = [disk EXCEPT ![backup_path] = original_content,
                                      ![file_path] = written]
          /\ backup_files' = Append(backup_files, backup_path)
          /\ UNCHANGED processed_files
          /\ lastOp' = op(0)
       \/ /\ fault = "none"
          /\ res.content # original_content
          /\ disk' = [disk EXCEPT ![backup_path] = original_content,
                                  ![file_path] = res.content]
          /\ backup_files' = Append(backup_files, backup_path)
          /\ processed_files' = Append(processed_files, file_path)
          /\ lastOp' = op(res.changes)
       \/ /\ fault = "none"
          /\ res.content = original_content
          \* the backup just made exists, is removed, and one entry of the
          \* list is removed
          /\ disk' = [disk EXCEPT ![backup_path] = NoFile]
          /\ backup_files' =
                 RemoveFirst(Append(backup_files, backup_path), backup_path)
          /\ UNCHANGED processed_files
          /\ lastOp' = op(0)

\* SmartLocalizer.rollback()
Rollback ==
    /\ disk' = RollbackAll(disk, backup_files)
    /\ lastOp' = [lastOp EXCEPT !.op = "rollback", !.prev = lastOp.op]
    /\ UNCHANGED <<backup_files, processed_files, common_localizations,
                   fault_count, preciseVars, syncVars>>

\* a later run of the tool: a fresh SmartLocalizer over the same disk
NewSession ==
    /\ backup_files' = <<>>
    /\ processed_files' = <<>>
    /\ lastOp' = NoOp("new_session")
    /\ UNCHANGED <<disk, common_localizations, fault_count, preciseVars, syncVars>>

NextSmart ==
    \/ \E f \in TargetFiles, fault \in Faults : LocalizeFile(f, fault)
    \/ Rollback
    \/ NewSession

SpecSmart == InitSmart /\ [][NextSmart]_vars

\* find_target_files(): sorted(list(set(filtered_files))); the path
\* "A.backup.swift" sorts before "A.swift"
TargetOrder == <<FileB, FileA>>

\* The state of one SmartLocalizer run between two files
RunState(d, backups, processed, ret) ==
    [disk |-> d, backup_files |-> backups, processed_files |-> processed,
     ret |-> ret]

\* localize_file(file_path) as a function: the states it can leave, with the
\* number of changes it returns in ret.  The cases are those of LocalizeFile.
LocalizeOutcomes(st, file_path, fault) ==
    LET original_content == st.disk[file_path]
        backup_path == BackupPath(file_path)
        res == ApplyLocalizations(original_content, 0, common_localizations)
        backed == Append(st.backup_files, backup_path)
    IN IF fault = "backup"
       THEN {RunState([st.disk EXCEPT ![backup_path] = copied],
                      st.backup_files, st.processed_files, 0) :
                copied \in {st.disk[backup_path]} \cup Prefixes(original_content)}
       ELSE IF fault = "read"
       THEN {RunState([st.disk EXCEPT ![backup_path] = original_content],
                      backed, st.processed_files, 0)}
       ELSE IF fault = "write" /\ res.content # original_content
       THEN {RunState([st.disk EXCEPT ![backup_path] = original_content,
                                      ![file_path] = written],
                      backed, st.processed_files, 0) :
                written \in {original_content}
                               \cup (Prefixes(res.content) \ {res.content})}
       ELSE IF res.content # original_content
       THEN {RunState([st.disk EXCEPT ![backup_path] = original_content,
                                      ![file_path] = res.content],
                      backed, Append(st.processed_files, file_path),
                      res.changes)}
       ELSE {RunState([st.disk EXCEPT ![backup_path] = NoFile],
                      RemoveFirst(backed, backup_path), st.processed_files, 0)}

\* `except Exception as e:` around the work on one file returns to the loop
\* over the files, which goes on with the next file
AbortsAfter(fault) == fault = "none"
ContinuesAfter(fault) == TRUE

\* the loop `for file_path in target_files: changes = self.localize_file(..)`
\* of run(); ret adds up total_changes
RECURSIVE RunFiles(_, _, _, _)
RunFiles(st, files, ffile, fault) ==
    IF files = <<>> THEN {st}
    ELSE LET file_path == Head(files)
             f == IF file_path = ffile THEN fault ELSE "none"
         IN UNION { IF ContinuesAfter(f)
                    THEN RunFiles([o EXCEPT !.ret = st.ret + o.ret],
                                  Tail(files), ffile, fault)
                    ELSE {[o EXCEPT !.ret = st.ret + o.ret]} :
                    o \in LocalizeOutcomes(st, file_path, f) }

\* SmartLocalizer.run() of a fresh SmartLocalizer, as main() calls it.
\* ffile and fault name the file whose backup, read or write raises, if any.
\* The scans before and after the loop read the files and change nothing.
Run(ffile, fault) ==
    /\ lastOp.op \in {"init", "new_session"}
    /\ fault # "none" => fault_count < MaxFaults
    /\ fault = "none" => ffile = FileA
    /\ fault = "write" =>
           ApplyLocalizations(disk[ffile], 0, common_localizations).content
               # disk[ffile]
    /\ \A f \in TargetFiles :
           /\ disk[f] # NoFile
           /\ Len(ApplyLocalizations(disk[f], 0, common_localizations).content)
                  <= MaxContentLen
    /\ fault_count' = IF fault = "none" THEN fault_count ELSE fault_count + 1
    /\ \E o \in RunFiles(RunState(disk, backup_files, processed_files, 0),
                          TargetOrder, ffile, fault) :
           /\ disk' = o.disk
           /\ backup_files' = o.backup_files
           /\ processed_files' = o.processed_files
           /\ lastOp' = [op |-> "run", file |-> ffile, fault |-> fault,
                         pre |-> disk, changed |-> (o.disk # disk),
                         ret |-> o.ret, prev |-> lastOp.op]
    /\ UNCHANGED <<common_localizations, preciseVars, syncVars>>

----------------------------------------------------------------------------
(* PreciseLocalizer (precise_localizer.py) *)

\* A line is a sequence of tokens without its final newline.

At(line, i) == IF i >= 1 /\ i <= Len(line) THEN line[i] ELSE Tok("EOF")

\* str.strip(): drops leading and trailing whitespace
RECURSIVE LStrip(_)
LStrip(line) ==
    IF line # <<>> /\ IsWs(Head(line)) THEN LStrip(Tail(line)) ELSE line

RECURSIVE RStrip(_)
RStrip(line) ==
    IF line # <<>> /\ IsWs(line[Len(line)])
    THEN RStrip(SubSeq(line, 1, Len(line) - 1)) ELSE line

Strip(line) == RStrip(LStrip(line))

\* self.ui_patterns, in list order: the patterns that can match a line over
\* the token alphabet (the others need text the alphabet does not contain)
ui_patterns ==
    << "Text", "Button", "title", "standalone", "colon", "ButtonNSL",
       "TextNSL" >>

\* whether pattern p matches at token i of the line
\*   Text        Text\s*\(\s*"([^"]+)"\s*\)
\*   Button      Button\s*\(\s*"([^"]+)"\s*[,\)]
\*   title       title:\s*"([^"]+)"
\*   standalone  "([^"]*[A-Za-z]{3,}[^"]*)"(?=\s*\+|\s*,|\s*\))
\*   colon       :\s*"([^"]+)"
\*   ButtonNSL   Button\s*\(\s*NSLocalizedString\s*\(\s*"([^"]+)"[^)]*\)\s*[,\)]
\*   TextNSL     Text\s*\(\s*NSLocalizedString\s*\(\s*"([^"]+)"[^)]*\)
\* i is the position of the captured literal (group 1)
FirstRp(line, i) ==
    IF \E j \in i..Len(line) : line[j] = RpTok
    THEN CHOOSE j \in i..Len(line) :
             line[j] = RpTok /\ \A h \in i..(j - 1) : line[h] # RpTok
    ELSE 0

PatternMatchesAt(p, line, i) ==
    /\ line[i].k = "Q"
    /\ CASE p = "Text" ->
              At(line, i - 1) = TextTok /\ At(line, i + 1) = RpTok
         [] p = "Button" ->
              At(line, i - 1) = ButtonTok /\ At(line, i + 1) \in {RpTok, CmtTok}
         [] p = "title" -> At(line, i - 1) = TitleTok
         [] p = "standalone" -> At(line, i + 1) \in {RpTok, CmtTok}
         [] p = "colon" -> At(line, i - 1) \in {TitleTok, CmtTok}
         [] p = "ButtonNSL" ->
              /\ At(line, i - 1) = NslTok /\ At(line, i - 2) = ButtonTok
              /\ FirstRp(line, i) # 0
              /\ At(line, FirstRp(line, i) + 1) \in {RpTok, CmtTok}
         [] p = "TextNSL" ->
              /\ At(line, i - 1) = NslTok /\ At(line, i - 2) = TextTok
              /\ FirstRp(line, i) # 0
         [] OTHER -> FALSE

\* [m.group(1) for m in re.finditer(pattern, line)], left to right
RECURSIVE PatternTextsFrom(_, _, _)
PatternTextsFrom(p, line, i) ==
    IF i > Len(line) THEN <<>>
    ELSE IF PatternMatchesAt(p, line, i)
        THEN <<line[i].s>> \o PatternTextsFrom(p, line, i + 1)
        ELSE PatternTextsFrom(p, line, i + 1)

PatternTexts(p, line) == PatternTextsFrom(p, line, 1)

\* self.avoid_patterns that can match a line over the token alphabet:
\*   let\s+\w+      //.*      NSLocalizedString\s*\(
avoid_patterns == << LetTok, NoteTok, NslTok >>

AvoidMatches(line) ==
    {i \in 1..Len(avoid_patterns) : HasTok(line, avoid_patterns[i])}

\* technical_indicators of is_code_logic, on the literal itself:
\* ^[a-z]+\.[a-z]+  ^\w+\.\w+$  ^[A-Z_]+$  ^\w+://  \.(png|jpg|mp3|wav|plist)$
\* "APP_ID" has the constant shape ^[A-Z_]+$; the words of Strings match none
TechnicalText(text) == text \in {"APP_ID"}

IsCodeLogicIgnoreLine(line, text) == TechnicalText(text)
is_code_logic(line, text) == AvoidMatches(line) # {} \/ TechnicalText(text)

\* re.match(r'^\s*(//|/\*|\*)', line.strip())
IsCommentLine(line) == Strip(line) # <<>> /\ Head(Strip(line)) = NoteTok

\* The findings of find_ui_strings for one line: for each pattern, for each
\* match, one (line_num, line.strip(), text) unless the match is skipped.
Finding(line_num, line, text) ==
    [line_number |-> line_num, original |-> Strip(line), text |-> text]

\* `if text in self.localizable_strings:`
StoreCheckDropped(text, strings) == TRUE
InStore(text, strings) == text \in strings

RECURSIVE TextsToFindings(_, _, _, _)
TextsToFindings(texts, line_num, line, strings) ==
    IF texts = <<>> THEN <<>>
    ELSE LET text == Head(texts)
             rest == TextsToFindings(Tail(texts), line_num, line, strings)
         IN IF is_code_logic(line, text) THEN rest
            ELSE IF HasTok(line, NslTok) THEN rest
            ELSE IF InStore(text, strings)
                 THEN <<Finding(line_num, line, text)>> \o rest
                 ELSE rest

RECURSIVE LineFindingsFrom(_, _, _, _)
LineFindingsFrom(pi, line_num, line, strings) ==
    IF pi > Len(ui_patterns) THEN <<>>
    ELSE TextsToFindings(PatternTexts(ui_patterns[pi], line),
                         line_num, line, strings)
             \o LineFindingsFrom(pi + 1, line_num, line, strings)

LineFindings(line_num, line, strings) ==
    IF IsCommentLine(line) THEN <<>>
    ELSE LineFindingsFrom(1, line_num, line, strings)

\* find_ui_strings(file_path) over the lines of the file
RECURSIVE FindFrom(_, _, _)
FindFrom(lines, line_num, strings) ==
    IF line_num > Len(lines) THEN <<>>
    ELSE LineFindings(line_num, lines[line_num], strings)
             \o FindFrom(lines, line_num + 1, strings)

find_ui_strings(lines, strings) == FindFrom(lines, 1, strings)

\* str.replace(old, new): every non-overlapping occurrence of the token
\* sequence old, left to right
IsPrefixAt(line, old) ==
    Len(old) <= Len(line) /\ SubSeq(line, 1, Len(old)) = old

RECURSIVE ReplaceFirstOnly(_, _, _)
ReplaceFirstOnly(line, old, new) ==
    IF line = <<>> THEN <<>>
    ELSE IF IsPrefixAt(line, old)
        THEN new \o SubSeq(line, Len(old) + 1, Len(line))
        ELSE <<Head(line)>> \o ReplaceFirstOnly(Tail(line), old, new)

RECURSIVE ReplaceAll(_, _, _)
ReplaceAll(line, old, new) ==
    IF line = <<>> THEN <<>>
    ELSE IF IsPrefixAt(line, old)
        THEN new \o ReplaceAll(SubSeq(line, Len(old) + 1, Len(line)), old, new)
        ELSE <<Head(line)>> \o ReplaceAll(Tail(line), old, new)

\* `old in line`
Contains(line, old) ==
    \E i \in 1..Len(line) : IsPrefixAt(SubSeq(line, i, Len(line)), old)

\* generate_replacement(original_line, text)
GenerateReplacementDropsParen(original_line, text) ==
    IF Contains(original_line, <<TextTok, Q(text), RpTok>>)
    THEN ReplaceAll(original_line, <<TextTok, Q(text), RpTok>>,
                    <<TextTok>> \o WrappedCall(text, text))
    ELSE IF Contains(original_line, <<ButtonTok, Q(text)>>)
    THEN ReplaceAll(original_line, <<ButtonTok, Q(text)>>,
                    <<ButtonTok>> \o WrappedCall(text, text))
    ELSE ReplaceAll(original_line, <<Q(text)>>, WrappedCall(text, text))

generate_replacement(original_line, text) ==
    IF Contains(original_line, <<TextTok, Q(text), RpTok>>)
    THEN ReplaceAll(original_line, <<TextTok, Q(text), RpTok>>,
                    <<TextTok>> \o WrappedCall(text, text) \o <<RpTok>>)
    ELSE IF Contains(original_line, <<ButtonTok, Q(text)>>)
    THEN ReplaceAll(original_line, <<ButtonTok, Q(text)>>,
                    <<ButtonTok>> \o WrappedCall(text, text))
    ELSE ReplaceAll(original_line, <<Q(text)>>, WrappedCall(text, text))

\* the file_plan of create_replacement_plan for the findings of one file
RECURSIVE FilePlan(_)
FilePlan(findings) ==
    IF findings = <<>> THEN <<>>
    ELSE LET fd == Head(findings)
         IN << [line_number |-> fd.line_number,
                original |-> fd.original,
                replacement |-> generate_replacement(fd.original, fd.text),
                text |-> fd.text] >> \o FilePlan(Tail(findings))

\* sorted(file_plan, key=line_number, reverse=True): a stable sort, entries
\* of the same line keep their plan order
RECURSIVE InsertAscending(_, _)
InsertAscending(sorted, e) ==
    IF sorted = <<>> THEN <<e>>
    ELSE IF Head(sorted).line_number <= e.line_number
        THEN <<Head(sorted)>> \o InsertAscending(Tail(sorted), e)
        ELSE <<e>> \o sorted

RECURSIVE InsertDescending(_, _)
InsertDescending(sorted, e) ==
    IF sorted = <<>> THEN <<e>>
    ELSE IF Head(sorted).line_number >= e.line_number
        THEN <<Head(sorted)>> \o InsertDescending(Tail(sorted), e)
        ELSE <<e>> \o sorted

RECURSIVE SortedDescending(_)
SortedDescending(file_plan) ==
    IF file_plan = <<>> THEN <<>>
    ELSE InsertDescending(
             SortedDescending(SubSeq(file_plan, 1, Len(file_plan) - 1)),
             file_plan[Len(file_plan)])

\* the loop  lines[line_idx] = replacement['replacement'] + '\n'
RECURSIVE ApplyEntries(_, _)
ApplyEntries(lines, entries) ==
    IF entries = <<>> THEN lines
    ELSE LET e == Head(entries)
         IN IF e.line_number - 1 < Len(lines)
            THEN ApplyEntries([lines EXCEPT ![e.line_number] = e.replacement],
                              Tail(entries))
            ELSE ApplyEntries(lines, Tail(entries))

RewrittenLines(lines, file_plan) ==
    ApplyEntries(lines, SortedDescending(file_plan))

\* `if not dry_run:` of apply_replacements
IgnoresDryRun(dry_run) == TRUE
WritesFiles(dry_run) == ~dry_run

\* The project scanned by the PreciseLocalizer
FileViewA == "Views/A.swift"
FileViewB == "Views/B.swift"
PFiles == {FileViewA, FileViewB}

SeqsUpTo(S, n) == UNION {[1..k -> S] : k \in 1..n}

\* statements a generated line is made of
Segments ==
    {<<NoteTok>>}
    \cup UNION { { <<TextTok, Q(s), RpTok>>,
                   <<ButtonTok, Q(s), RpTok>>,
                   <<TitleTok, Q(s)>>,
                   <<LetTok, Q(s)>>,
                   <<TextTok>> \o WrappedCall(s, s) \o <<RpTok>> } :
                 s \in Strings }

RECURSIVE JoinSegments(_)
JoinSegments(segs) ==
    IF Len(segs) = 1 THEN segs[1]
    ELSE segs[1] \o <<SemiTok>> \o JoinSegments(Tail(segs))

PlainLines == {JoinSegments(segs) : segs \in SeqsUpTo(Segments, MaxSegs)}

\* the same lines, also indented
GeneratedLines == PlainLines \cup {<<IndTok>> \o l : l \in PlainLines}

\* hand-picked lines for files of several lines
PickedLines ==
    { <<IndTok, TextTok, Q("Save"), RpTok>>,
      <<TextTok, Q("Save"), RpTok, SemiTok, TextTok, Q("Stop"), RpTok>>,
      <<TextTok, Q("Save"), RpTok, SemiTok, TextTok, Q("Save"), RpTok>>,
      <<ButtonTok, Q("Save"), RpTok, SemiTok, TitleTok, Q("Save")>>,
      <<LetTok, Q("Save")>>,
      <<TextTok, Q("APP_ID"), RpTok>>,
      <<NoteTok>> }

StoreChoices == { {}, {"Save"}, {"Save", "Stop", "APP_ID"} }

\* exclude rules of config.yaml, in both orders of the context patterns
ExcludeConfigs ==
    { [exclude_string_patterns |-> <<>>, exclude_contexts |-> <<>>],
      [exclude_string_patterns |-> <<"constant">>,
       exclude_contexts |-> <<"LET", "NOTE">>],
      [exclude_string_patterns |-> <<"constant">>,
       exclude_contexts |-> <<"NOTE", "LET">>] }

Verdict(string, context, result) ==
    [string |-> string, context |-> context, result |-> result]

SmartIdle ==
    /\ disk = [p \in Paths |-> NoFile]
    /\ backup_files = <<>>
    /\ processed_files = <<>>
    /\ common_localizations = <<>>
    /\ lastOp = NoOp("init")

POp(name, dry_run, fault) ==
    [op |-> name, dry_run |-> dry_run, fault |-> fault, stage |-> "none"]

\* PreciseLocalizer(project_root) with localizable_strings loaded
InitPrecise ==
    /\ \E la \in SeqsUpTo(PickedLines, MaxLines)
                    \cup {<<l>> : l \in PlainLines} :
           pfiles = [f \in PFiles |->
                        IF f = FileViewA THEN la
                        ELSE << <<TitleTok, Q("Stop")>>, <<LetTok, Q("Save")>> >>]
    /\ localizable_strings \in StoreChoices
    /\ scan_results = [f \in PFiles |-> <<>>]
    /\ plan = [f \in PFiles |-> <<>>]
    /\ pLast = POp("init", FALSE, "none")
    /\ exclude_config = <<>>
    /\ smart_verdict = <<>>
    /\ fault_count = 0
    /\ SmartIdle
    /\ SyncIdle

\* scan_project(): a file is entered in the result only with findings, which
\* is an empty sequence here
ScanProject ==
    /\ scan_results' =
           [f \in PFiles |-> find_ui_strings(pfiles[f], localizable_strings)]
    /\ pLast' = [POp("scan", FALSE, "none") EXCEPT !.stage = "scanned"]
    /\ UNCHANGED <<pfiles, localizable_strings, plan, fault_count,
                   exclude_config, smart_verdict, smartVars, syncVars>>

\* create_replacement_plan(scan_results)
CreateReplacementPlan ==
    /\ plan' = [f \in PFiles |-> FilePlan(scan_results[f])]
    /\ pLast' = [POp("plan", FALSE, "none") EXCEPT
                    !.stage = IF pLast.stage = "scanned" THEN "planned"
                              ELSE "none"]
    /\ UNCHANGED <<pfiles, localizable_strings, scan_results, fault_count,
                   exclude_config, smart_verdict, smartVars, syncVars>>

\* apply_replacements(plan, dry_run).  ffile and fault name the file whose
\* read or write raises, if any; the except clause skips that file.  A
\* failing write leaves the file as it was (open refused) or, as 'w'
\* truncates in place, holding a proper prefix of the new lines.
ApplyReplacements(dry_run, ffile, fault) ==
    /\ fault # "none" => /\ WritesFiles(dry_run)
                         /\ plan[ffile] # <<>>
    /\ fault = "none" => ffile = FileViewA
    /\ \E failed \in IF fault = "write"
                     THEN {pfiles[ffile]}
                          \cup (Prefixes(RewrittenLines(pfiles[ffile], plan[ffile]))
                                \ {RewrittenLines(pfiles[ffile], plan[ffile])})
                     ELSE {pfiles[ffile]} :
           pfiles' = [f \in PFiles |->
                         IF ~WritesFiles(dry_run) \/ plan[f] = <<>> THEN pfiles[f]
                         ELSE IF f = ffile /\ fault # "none" THEN failed
                         ELSE RewrittenLines(pfiles[f], plan[f])]
    /\ pLast' = [POp("apply", dry_run, fault) EXCEPT
                    !.stage = IF pLast.stage = "planned" /\ ~dry_run
                                 /\ fault = "none"
                              THEN "applied" ELSE "none"]
    /\ UNCHANGED <<localizable_strings, scan_results, plan, exclude_config,
                   smart_verdict, fault_count, smartVars, syncVars>>

\* SmartLocalizer.is_localizable_string(string, context) on a literal and a
\* line of the project as its context
IsLocalizableStringCall(string, f, n) ==
    /\ smart_verdict' =
           Verdict(string, pfiles[f][n],
                   is_localizable_string(string, pfiles[f][n], exclude_config))
    /\ UNCHANGED <<pfiles, localizable_strings, scan_results, plan, pLast,
                   exclude_config, fault_count, smartVars, syncVars>>

NextPrecise ==
    \/ ScanProject
    \/ CreateReplacementPlan
    \/ \E dry_run \in BOOLEAN, ffile \in PFiles, fault \in {"none", "read", "write"} :
           ApplyReplacements(dry_run, ffile, fault)

SpecPrecise == InitPrecise /\ [][NextPrecise]_vars

\* The two classifiers on single lines: find_ui_strings of the
\* PreciseLocalizer and is_localizable_string of the SmartLocalizer
InitClassify ==
    /\ \E l \in GeneratedLines \cup PickedLines :
           pfiles = [f \in PFiles |-> IF f = FileViewA THEN <<l>> ELSE <<>>]
    /\ localizable_strings \in StoreChoices
    /\ scan_results = [f \in PFiles |-> <<>>]
    /\ plan = [f \in PFiles |-> <<>>]
    /\ pLast = POp("init", FALSE, "none")
    /\ exclude_config \in ExcludeConfigs
    /\ smart_verdict = Verdict("", <<>>, FALSE)
    /\ fault_count = 0
    /\ SmartIdle
    /\ SyncIdle

NextClassify ==
    \/ ScanProject
    \/ \E string \in ClassifiedStrings, f \in PFiles :
           \E n \in 1..Len(pfiles[f]) : IsLocalizableStringCall(string, f, n)

SpecClassify == InitClassify /\ [][NextClassify]_vars

----------------------------------------------------------------------------
(* StringsSyncer (sync_strings.py) and MasterLocalizer.write_english_file  *)

(* A .strings file is a sequence of store tokens:                          *)
(*   ENTRY   "key" = "value";         NL     a newline character           *)
(*   LITNL   the two characters \n    MARK   the dated section comment     *)
(*   HEADER  the header comment of the generated English file              *)
(*   CAT     a category comment of the generated English file              *)
STok(k, key, value) == [k |-> k, s |-> key, v |-> value]
Entry(key, value) == STok("ENTRY", key, value)
StoreNl == STok("NL", "", "")
LitNl == STok("LITNL", "", "")
Marker == STok("MARK", "", "")
Header == STok("HEADER", "", "")
Category(name) == STok("CAT", name, "")

\* the content of a path at which no .strings file exists
NoStore == <<STok("NOFILE", "", "")>>

\* StringsSyncer.en_file, StringsSyncer.zh_file, MasterLocalizer.en_file
EnFile == "en.lproj/Localizable.strings"
ZhFile == "zh-Hans.lproj/Localizable.strings"
MasterEnFile == "VoiceInk/en.lproj/Localizable.strings"
\* MasterLocalizer.master_file, which is also its zh_file
MasterZhFile == "VoiceInk/zh-Hans.lproj/Localizable.strings"
SyncerFiles == <<EnFile, ZhFile>>
StorePaths == {EnFile, ZhFile, MasterEnFile, MasterZhFile}

\* sorted(...) of keys
KeyOrder == <<"Old", "Save", "Stop">>
SortedKeys(keys) == SelectSeq(KeyOrder, LAMBDA k : k \in keys)

(* The regular expressions of sync_strings.py and of collect_new_strings   *)
(* are raw strings with doubled backslashes.  A pattern is modelled by the *)
(* sequence of its regex items:                                            *)
(*   BACKSLASH   \\   a literal backslash character                        *)
(*   OPEN  (  opens a group        CLOSE  )  closes a group                *)
(*   ESC_OPEN  \(  a literal (     ESC_CLOSE  \)  a literal )              *)
(*   WS  \s*                       other items are literal text            *)
\* r'NSLocalizedString\\("([^"]+)",\\s*comment:'
UsedKeysPatternSingleEscaped ==
    << "NSLocalizedString", "ESC_OPEN", "QUOTE", "OPEN", "NOT_QUOTE_PLUS",
       "CLOSE", "QUOTE", "COMMA", "WS", "comment:" >>
UsedKeysPattern ==
    << "NSLocalizedString", "BACKSLASH", "OPEN", "QUOTE", "OPEN",
       "NOT_QUOTE_PLUS", "CLOSE", "QUOTE", "COMMA", "BACKSLASH", "s*",
       "comment:" >>

\* r'NSLocalizedString\\("([^"]+)",\\s*comment:\\s*"[^"]*"\\)'
NewStringsPattern ==
    << "NSLocalizedString", "BACKSLASH", "OPEN", "QUOTE", "OPEN",
       "NOT_QUOTE_PLUS", "CLOSE", "QUOTE", "COMMA", "BACKSLASH", "s*",
       "comment:", "BACKSLASH", "s*", "QUOTE", "NOT_QUOTE_STAR", "QUOTE",
       "BACKSLASH", "CLOSE" >>

\* r'^"([^"]+)"\\s*=\\s*"([^"]*)";?\\s*$'
ExistingKeysPattern ==
    << "START", "QUOTE", "OPEN", "NOT_QUOTE_PLUS", "CLOSE", "QUOTE",
       "BACKSLASH", "s*", "=", "BACKSLASH", "s*", "QUOTE", "OPEN",
       "NOT_QUOTE_STAR", "CLOSE", "QUOTE", "SEMI_OPT", "BACKSLASH", "s*",
       "END" >>

ItemCount(pattern, item) ==
    Cardinality({i \in 1..Len(pattern) : pattern[i] = item})

\* re.compile: a pattern with an unterminated group raises re.error
RegexCompiles(pattern) ==
    ItemCount(pattern, "OPEN") = ItemCount(pattern, "CLOSE")

\* a pattern with a literal backslash matches only text that holds a
\* backslash; neither the Swift tokens nor the store tokens ENTRY hold one
NeedsBackslash(pattern) == ItemCount(pattern, "BACKSLASH") > 0

\* the key arguments of the calls  NSLocalizedString("<key>", comment:
KeysOfWrappedCalls(content) ==
    {content[i + 1].s : i \in {j \in 1..(Len(content) - 2) :
                                  /\ content[j] = NslTok
                                  /\ content[j + 1].k = "Q"
                                  /\ content[j + 2] = CmtTok}}

\* re.findall(pattern, content) inside try/except of extract_used_keys and
\* collect_new_strings: a pattern that does not compile raises for every
\* file, the except clause reports it and the file contributes no key
FindallKeys(pattern, content) ==
    IF ~RegexCompiles(pattern) THEN {}
    ELSE IF NeedsBackslash(pattern) THEN {}
    ELSE KeysOfWrappedCalls(content)

\* StringsSyncer.extract_used_keys() over the Swift files
extract_used_keys(sources) ==
    UNION {FindallKeys(UsedKeysPattern, sources[i]) : i \in 1..Len(sources)}

\* SmartLocalizer.collect_new_strings() over the target files
collect_new_strings(sources) ==
    UNION {FindallKeys(NewStringsPattern, sources[i]) : i \in 1..Len(sources)}

\* content.split(sep): the pieces between the separator tokens
RECURSIVE SplitOn(_, _)
SplitOn(content, sep) ==
    IF \E i \in 1..Len(content) : content[i] = sep
    THEN LET i == CHOOSE j \in 1..Len(content) :
                      content[j] = sep /\ \A h \in 1..(j - 1) : content[h] # sep
         IN <<SubSeq(content, 1, i - 1)>>
                \o SplitOn(SubSeq(content, i + 1, Len(content)), sep)
    ELSE <<content>>

\* line.strip() of a piece of a .strings file
RECURSIVE StripStore(_)
StripStore(piece) ==
    IF piece # <<>> /\ Head(piece) = StoreNl THEN StripStore(Tail(piece))
    ELSE IF piece # <<>> /\ piece[Len(piece)] = StoreNl
    THEN StripStore(SubSeq(piece, 1, Len(piece) - 1))
    ELSE piece

\* re.match(pattern, line) of an anchored key-value pattern on a stripped
\* piece: the piece must be one entry
MatchesEntry(pattern, piece) ==
    /\ RegexCompiles(pattern)
    /\ ~NeedsBackslash(pattern)
    /\ Len(piece) = 1
    /\ \/ piece[1].k = "ENTRY"
       \/ piece[1].k = "ENTRYNS" /\ ItemCount(pattern, "SEMI_OPT") > 0

\* StringsSyncer.extract_existing_keys(file_path): the keys of the dict it
\* returns; the content is split at the two characters \n ('\\n')
extract_existing_keys(content) ==
    IF content = NoStore THEN {}
    ELSE LET pieces == SplitOn(content, LitNl)
         IN {StripStore(pieces[i])[1].s :
                i \in {j \in 1..Len(pieces) :
                          MatchesEntry(ExistingKeysPattern, StripStore(pieces[j]))}}

\* StringsSyncer.generate_chinese_translation(english_key): "Save" is in
\* basic_translations, other keys get the needs-translation mark
generate_chinese_translation(english_key) ==
    IF english_key = "Save" THEN "BaoCun"
    ELSE "[needs translation]"

\* the new_entries of update_strings_file, each followed by '\\n'
RECURSIVE NewEntries(_, _, _)
NewEntries(keys, existing_keys, is_chinese) ==
    IF keys = <<>> THEN <<>>
    ELSE LET key == Head(keys)
             value == IF is_chinese THEN generate_chinese_translation(key)
                      ELSE key
             rest == NewEntries(Tail(keys), existing_keys, is_chinese)
         IN IF key \notin existing_keys
            THEN <<Entry(key, value), LitNl>> \o rest
            ELSE rest

\* the content update_strings_file writes back, and whether it writes
UpdatedContentDropsOld(old, existing_keys, new_keys, is_chinese) ==
    LET new_entries == NewEntries(SortedKeys(new_keys), existing_keys, is_chinese)
    IN IF new_entries = <<>> THEN old
       ELSE <<LitNl, Marker, LitNl>> \o new_entries

UpdatedContent(old, existing_keys, new_keys, is_chinese) ==
    LET content == IF old = NoStore THEN <<>> ELSE old
        new_entries == NewEntries(SortedKeys(new_keys), existing_keys, is_chinese)
        closed == IF content # <<>> /\ content[Len(content)] # LitNl
                  THEN content \o <<LitNl>> ELSE content
    IN IF new_entries = <<>> THEN old
       ELSE closed \o <<LitNl, Marker, LitNl>> \o new_entries

\* added_count of update_strings_file
AddedCount(existing_keys, new_keys) == Cardinality(new_keys \ existing_keys)

\* the pairs (key, value) a reader of the "key" = "value"; format finds in
\* a .strings file (load_localizable_strings: re.findall over the content)
StoreEntries(content) ==
    IF content = NoStore THEN {}
    ELSE {<<content[i].s, content[i].v>> :
             i \in {j \in 1..Len(content) : content[j].k = "ENTRY"}}

StoreKeys(content) == {e[1] : e \in StoreEntries(content)}

\* backup_files(): a copy of every .strings file that exists; the copy of
\* the file named by failing raises and is skipped
RECURSIVE BackupCopies(_, _, _)
BackupCopies(d, paths, failing) ==
    IF paths = <<>> THEN {}
    ELSE (IF d[Head(paths)] # NoStore /\ Head(paths) # failing
          THEN {[file |-> Head(paths), content |-> d[Head(paths)]]}
          ELSE {})
         \cup BackupCopies(d, Tail(paths), failing)

\* the I/O steps of a run in their order
RECURSIVE BackupSteps(_, _)
BackupSteps(d, paths) ==
    IF paths = <<>> THEN <<>>
    ELSE (IF d[Head(paths)] # NoStore
          THEN <<[io |-> "backup", file |-> Head(paths)]>> ELSE <<>>)
         \o BackupSteps(d, Tail(paths))

WriteStep(old, new, path) ==
    IF new # old THEN <<[io |-> "write", file |-> path]>> ELSE <<>>

\* `if not new_keys:` of sync
EarlyReturnDropped(new_keys) == FALSE
NoNewKeys(new_keys) == new_keys = {}

\* MasterLocalizer.generate_english_from_keys(keys): the header, an empty
\* line, then per category that has keys its comment, its entries with the
\* key as value, and an empty line.  "Save" is a button, "Stop" is other.
CategoryBlock(name, keys) ==
    IF keys = <<>> THEN <<>>
    ELSE << <<Category(name), StoreNl>>
               \o Flatten([i \in 1..Len(keys) |->
                              <<Entry(keys[i], keys[i]), StoreNl>>]) >>

RECURSIVE JoinBlocks(_)
JoinBlocks(blocks) ==
    IF blocks = <<>> THEN <<>>
    ELSE IF Len(blocks) = 1 THEN blocks[1]
    ELSE blocks[1] \o <<StoreNl>> \o JoinBlocks(Tail(blocks))

GenerateEnglishButtonsOnly(keys) ==
    IF keys \cap {"Save"} = {} THEN <<Header, StoreNl>>
    ELSE <<Header, StoreNl, StoreNl>>
             \o JoinBlocks(CategoryBlock("buttons", SortedKeys(keys \cap {"Save"})))

generate_english_from_keys(keys) ==
    IF keys = {} THEN <<Header, StoreNl>>
    ELSE <<Header, StoreNl, StoreNl>>
             \o JoinBlocks(CategoryBlock("buttons", SortedKeys(keys \cap {"Save"}))
                           \o CategoryBlock("other", SortedKeys(keys \ {"Save"})))

\* The last operation on the stores and what it saw
SOp(name, file, fault) ==
    [op |-> name, file |-> file, fault |-> fault, pre |-> <<>>,
     pre_backups |-> {}, used_keys |-> {}, new_keys |-> {},
     phases |-> <<>>, io |-> <<>>, added |-> 0, prev |-> "",
     records |-> {}, missing |-> {}, extra |-> {}]

\* Swift files the syncer walks over
SyncSources ==
    { << <<TextTok, Q("Stop"), RpTok, NlTok, TextTok>>
            \o WrappedCall("Save", "Save") \o <<RpTok, NlTok>> >>,
      << <<TextTok>> \o WrappedCall("Stop", "Stop") \o <<RpTok, NlTok>>,
         <<TextTok>> \o WrappedCall("Save", "Save button") \o <<RpTok, NlTok,
           TitleTok>> \o WrappedCall("Stop", "Stop") \o <<NlTok>> >> }

InitSync ==
    /\ strings_disk \in
           {d \in [StorePaths -> {NoStore, <<Entry("Stop", "Stop")>>,
                                  <<Entry("Stop", "TingZhi"), StoreNl>>}] :
               /\ d[MasterEnFile] = NoStore
               /\ d[MasterZhFile] = NoStore
               /\ d[EnFile] # <<Entry("Stop", "TingZhi"), StoreNl>>
               /\ d[ZhFile] \in {NoStore, <<Entry("Stop", "TingZhi"), StoreNl>>}}
    /\ strings_backups = {}
    /\ swift_sources \in SyncSources
    /\ sLast = SOp("init", "", "none")
    /\ fault_count = 0
    /\ SmartIdle
    /\ PreciseIdle

\* StringsSyncer.sync().  fault names the step of the update that raises,
\* if any: "backup" the copy of the English file, "write" the write of the
\* English file; both are caught and the run goes on.
Sync(fault) ==
    LET used_keys == extract_used_keys(swift_sources)
        en_keys == extract_existing_keys(strings_disk[EnFile])
        zh_keys == extract_existing_keys(strings_disk[ZhFile])
        new_keys == used_keys \ en_keys
        new_en == UpdatedContent(strings_disk[EnFile], en_keys, new_keys, FALSE)
        new_zh == UpdatedContent(strings_disk[ZhFile], zh_keys, new_keys, TRUE)
        op == [SOp("sync", "", fault) EXCEPT
                  !.pre = strings_disk, !.pre_backups = strings_backups,
                  !.used_keys = used_keys, !.new_keys = new_keys,
                  !.prev = sLast.op]
    IN
    /\ fault # "none" => /\ ~NoNewKeys(new_keys)
                         /\ strings_disk[EnFile] # NoStore
                         /\ fault = "write" => new_en # strings_disk[EnFile]
    /\ Len(new_en) <= MaxStoreLen
    /\ Len(new_zh) <= MaxStoreLen
    /\ fault # "none" => fault_count < MaxFaults
    /\ fault_count' = IF fault = "none" THEN fault_count ELSE fault_count + 1
    /\ IF NoNewKeys(new_keys)
       THEN /\ sLast' = [op EXCEPT
                            !.phases = <<"Idle", "KeysCollected", "Diffed", "NoOp">>]
            /\ UNCHANGED <<strings_disk, strings_backups>>
       ELSE /\ strings_backups' =
                   strings_backups
                       \cup BackupCopies(strings_disk, SyncerFiles,
                                         IF fault = "backup" THEN EnFile ELSE "")
            /\ \E written \in IF fault = "write"
                              THEN {strings_disk[EnFile]}
                                       \cup (Prefixes(new_en) \ {new_en})
                              ELSE {new_en} :
                   strings_disk' = [strings_disk EXCEPT ![EnFile] = written,
                                                        ![ZhFile] = new_zh]
            /\ sLast' = [op EXCEPT
                            !.phases = <<"Idle", "KeysCollected", "Diffed",
                                         "Updating", "Updated">>,
                            !.io = BackupSteps(strings_disk, SyncerFiles)
                                       \o WriteStep(strings_disk[EnFile], new_en, EnFile)
                                       \o WriteStep(strings_disk[ZhFile], new_zh, ZhFile),
                            !.added = AddedCount(en_keys, new_keys)]
    /\ UNCHANGED <<swift_sources, smartVars, preciseVars>>

\* StringsSyncer.update_strings_file(file_path, existing_keys, new_keys,
\* is_chinese).  fault: "read" raises before anything is counted; "write"
\* raises in open(file_path, 'w') / f.write: 'w' truncates in place, so the
\* file is left as it was (open refused) or holding a proper prefix of the
\* new content.
UpdateStringsFile(file_path, existing_keys, new_keys, is_chinese, fault) ==
    LET old == strings_disk[file_path]
        new == UpdatedContent(old, existing_keys, new_keys, is_chinese)
        op == [SOp("update", file_path, fault) EXCEPT !.pre = old]
    IN
    /\ Len(new) <= MaxStoreLen
    /\ fault # "none" => fault_count < MaxFaults
    /\ fault_count' = IF fault = "none" THEN fault_count ELSE fault_count + 1
    /\ fault = "read" => old # NoStore
    /\ fault = "write" => new # old
    /\ \E written \in IF fault = "write"
                      THEN {old} \cup (Prefixes(new) \ {new})
                      ELSE IF fault = "read" THEN {old}
                      ELSE {new} :
           strings_disk' = [strings_disk EXCEPT ![file_path] = written]
    /\ sLast' = [op EXCEPT
                    !.added = IF fault = "read" THEN 0
                              ELSE AddedCount(existing_keys, new_keys),
                    !.io = IF fault = "read" THEN <<>>
                           ELSE WriteStep(old, new, file_path)]
    /\ UNCHANGED <<strings_backups, swift_sources, smartVars, preciseVars>>

\* MasterLocalizer.write_english_file(content) with the content generated
\* from keys.  A failing write leaves the file as it was (open refused) or,
\* truncated by 'w', holding a proper prefix of the content.
WriteEnglishFile(keys, fault) ==
    LET old == strings_disk[MasterEnFile]
        content == generate_english_from_keys(keys)
    IN
    /\ fault # "none" => fault_count < MaxFaults
    /\ fault_count' = IF fault = "none" THEN fault_count ELSE fault_count + 1
    /\ \E written \in IF fault = "write"
                      THEN {old} \cup (Prefixes(content) \ {content})
                      ELSE {content} :
           strings_disk' = [strings_disk EXCEPT ![MasterEnFile] = written]
    /\ sLast' = [SOp("write_english", MasterEnFile, fault) EXCEPT
                    !.pre = old,
                    !.io = <<[io |-> "write", file |-> MasterEnFile]>>]
    /\ UNCHANGED <<strings_backups, swift_sources, smartVars, preciseVars>>

NextSync ==
    \/ \E fault \in {"none", "backup", "write"} : Sync(fault)
    \/ \E file_path \in {EnFile, ZhFile}, new_keys \in SUBSET Strings,
          fault \in {"none", "read", "write"} :
           \E existing_keys \in {extract_existing_keys(strings_disk[file_path]),
                                 StoreKeys(strings_disk[file_path])} :
               UpdateStringsFile(file_path, existing_keys, new_keys,
                                 file_path = ZhFile, fault)

SpecSync == InitSync /\ [][NextSync]_vars

----------------------------------------------------------------------------
(* MasterLocalizer.run_full_sync and the readers of the master file         *)

(* Further store tokens of a hand-written master file:                     *)
(*   ENTRYNS   "key" = "value"  without the semicolon                      *)
(*   LCOMMENT  // "key" = "value";   a commented-out entry                 *)
(*   COPEN     /*  alone on a line    CCLOSE  */  alone on a line          *)
(*   WS        leading whitespace                                          *)
EntryNoSemi(key, value) == STok("ENTRYNS", key, value)
BlockOpen == STok("COPEN", "", "")
BlockClose == STok("CCLOSE", "", "")
StoreWs == STok("WS", "", "")

\* r'^"([^"]+)"\s*=\s*"([^"]*)";?\s*$'
MasterKeysPattern ==
    << "START", "QUOTE", "OPEN", "NOT_QUOTE_PLUS", "CLOSE", "QUOTE", "WS",
       "=", "WS", "QUOTE", "OPEN", "NOT_QUOTE_STAR", "CLOSE", "QUOTE",
       "SEMI_OPT", "WS", "END" >>

\* line.strip() of a line of a master file
RECURSIVE StripLine(_)
StripLine(line) ==
    IF line # <<>> /\ Head(line) = StoreWs THEN StripLine(Tail(line))
    ELSE IF line # <<>> /\ line[Len(line)] = StoreWs
    THEN StripLine(SubSeq(line, 1, Len(line) - 1))
    ELSE line

\* line.startswith('/*') or line.startswith('//')
StartsComment(line) ==
    line # <<>> /\ Head(line).k \in {"CAT", "HEADER", "COPEN", "LCOMMENT"}

\* a dict filled in the order of the matches, as its set of (key, value):
\* a later match of a key replaces the earlier one
DictOf(matches) ==
    {<<matches[i].s, matches[i].v>> :
        i \in {j \in 1..Len(matches) :
                  \A h \in (j + 1)..Len(matches) : matches[h].s # matches[j].s}}

DictKeys(dict) == {e[1] : e \in dict}

\* the lines of the master file that extract_keys_from_master matches
MasterMatches(content) ==
    LET lines == SplitOn(content, StoreNl)
        stripped == [i \in 1..Len(lines) |-> StripLine(lines[i])]
        matching == SelectSeq(stripped,
                        LAMBDA line : /\ line # <<>>
                                      /\ ~StartsComment(line)
                                      /\ MatchesEntry(MasterKeysPattern, line))
    IN [i \in 1..Len(matching) |-> matching[i][1]]

\* MasterLocalizer.extract_keys_from_master(): the dict it returns
extract_keys_from_master(content) ==
    IF content = NoStore THEN {} ELSE DictOf(MasterMatches(content))

\* PreciseLocalizer.load_localizable_strings(strings_file):
\* re.findall(r'"([^"]+)"\s*=\s*"([^"]+)"\s*;', content) finds every
\* "key" = "value"; of the content, wherever it stands
load_localizable_strings(content) ==
    IF content = NoStore THEN {}
    ELSE DictOf(SelectSeq(content,
                    LAMBDA t : t.k = "ENTRY" \/ (t.k = "LCOMMENT" /\ t.s # "")))

\* re.findall(r'^"([^"]+)"\s*=', en_content, re.MULTILINE) of validate_files
EnKeysOf(content) ==
    {content[i].s : i \in {j \in 1..Len(content) :
                              /\ content[j].k \in {"ENTRY", "ENTRYNS"}
                              /\ j = 1 \/ content[j - 1] = StoreNl}}

\* `if not <step>: return False` of run_full_sync
NeverAborts(ok) == FALSE
Aborts(ok) == ~ok

\* MasterLocalizer.run_full_sync().  fault names the step that raises, if
\* any: "backup" the copy of the master file, "write" the write of the
\* English file.  choice is the answer to the prompt of step 5: with "y"
\* sync_to_code runs smart_localize.py --auto-confirm, a fresh SmartLocalizer
\* whose run() rewrites the Swift files.
RunFullSync(fault, choice) ==
    LET master == strings_disk[MasterZhFile]
        old_en == strings_disk[MasterEnFile]
        backup_ok == master # NoStore /\ fault # "backup"
        zh_keys == extract_keys_from_master(master)
        en_content == generate_english_from_keys(DictKeys(zh_keys))
        stop1 == Aborts(backup_ok)
        stop2 == ~stop1 /\ Aborts(zh_keys # {})
        writes == ~stop1 /\ ~stop2
        stop3 == writes /\ Aborts(fault # "write")
    IN
    /\ fault # "none" => /\ fault_count < MaxFaults
                         /\ master # NoStore
    /\ fault = "write" => writes
    /\ fault_count' = IF fault = "none" THEN fault_count ELSE fault_count + 1
    /\ strings_backups' =
           IF backup_ok
           THEN strings_backups \cup {[file |-> MasterZhFile, content |-> master]}
           ELSE strings_backups
    /\ \E written \in IF ~writes THEN {old_en}
                      ELSE IF fault = "write"
                      THEN {old_en} \cup (Prefixes(en_content) \ {en_content})
                      ELSE {en_content} :
           /\ strings_disk' = [strings_disk EXCEPT ![MasterEnFile] = written]
           /\ LET valid == /\ writes /\ ~stop3
                           /\ DictKeys(zh_keys) = EnKeysOf(written)
                  stop4 == writes /\ ~stop3 /\ Aborts(valid)
                  done == writes /\ ~stop3 /\ ~stop4
              IN /\ sLast' =
                        [SOp("run_full_sync", MasterEnFile, fault) EXCEPT
                            !.pre = strings_disk,
                            !.pre_backups = strings_backups,
                            !.records = zh_keys,
                            !.missing = IF writes /\ ~stop3
                                        THEN DictKeys(zh_keys) \ EnKeysOf(written)
                                        ELSE {},
                            !.extra = IF writes /\ ~stop3
                                      THEN EnKeysOf(written) \ DictKeys(zh_keys)
                                      ELSE {},
                            !.phases = IF stop1 THEN <<"backup_failed">>
                                       ELSE IF stop2 THEN <<"backup", "no_keys">>
                                       ELSE IF stop3 THEN <<"backup", "keys", "write_failed">>
                                       ELSE IF stop4 THEN <<"backup", "keys", "written", "invalid">>
                                       ELSE <<"backup", "keys", "written", "valid">>]
                 /\ IF done /\ choice = "y"
                    THEN /\ \A f \in TargetFiles :
                                /\ disk[f] # NoFile
                                /\ Len(ApplyLocalizations(disk[f], 0,
                                          common_localizations).content)
                                       <= MaxContentLen
                         /\ \E o \in RunFiles(RunState(disk, <<>>, <<>>, 0),
                                             TargetOrder, FileA, "none") :
                                disk' = o.disk
                         /\ UNCHANGED <<backup_files, processed_files,
                                        common_localizations, lastOp>>
                    ELSE UNCHANGED smartVars
    /\ UNCHANGED <<swift_sources, preciseVars>>

\* main() of precise_localizer.py with the default --strings-file, the
\* master file: load the store, return if it is empty, scan the project,
\* return if nothing was found, plan and apply (with --apply) or preview
PreciseMain(apply) ==
    LET keys == DictKeys(load_localizable_strings(strings_disk[MasterZhFile]))
        results == [f \in PFiles |-> find_ui_strings(pfiles[f], keys)]
        the_plan == [f \in PFiles |-> FilePlan(results[f])]
        found == \E f \in PFiles : results[f] # <<>>
    IN
    /\ localizable_strings' = keys
    /\ IF keys = {}
       THEN /\ pLast' = [POp("main", ~apply, "none") EXCEPT !.stage = "no_store"]
            /\ UNCHANGED <<pfiles, scan_results, plan>>
       ELSE /\ scan_results' = results
            /\ IF ~found
               THEN /\ pLast' = [POp("main", ~apply, "none") EXCEPT
                                    !.stage = "nothing_found"]
                    /\ UNCHANGED <<pfiles, plan>>
               ELSE /\ plan' = the_plan
                    /\ pfiles' =
                           [f \in PFiles |->
                               IF WritesFiles(~apply) /\ the_plan[f] # <<>>
                               THEN RewrittenLines(pfiles[f], the_plan[f])
                               ELSE pfiles[f]]
                    /\ pLast' = [POp("main", ~apply, "none") EXCEPT
                                    !.stage = IF apply THEN "applied"
                                              ELSE "previewed"]
    /\ UNCHANGED <<exclude_config, smart_verdict, fault_count, smartVars,
                   syncVars>>

\* master files as they are written by hand
MasterContents ==
    { NoStore,
      <<Category("nav"), StoreNl, Entry("Save", "BaoCun"), StoreNl,
        Entry("Stop", "TingZhi"), StoreNl>>,
      <<Entry("Save", "BaoCun"), StoreNl>>,
      <<Category("nav"), StoreNl>>,
      <<Entry("Save", "BaoCun"), StoreNl, BlockOpen, StoreNl,
        Entry("Old", "JiuDe"), StoreNl, BlockClose, StoreNl>>,
      <<Entry("Save", "BaoCun"), StoreNl, STok("LCOMMENT", "Old", "JiuDe"), StoreNl>>,
      <<StoreWs, EntryNoSemi("Stop", "TingZhi"), StoreNl,
        Entry("Save", "BaoCun"), StoreNl>>,
      <<Entry("Save", "BaoCun"), StoreNl, Entry("Save", "CunChu"), StoreNl>> }

\* The tools of the master workflow over one project
InitMaster ==
    /\ strings_disk \in
           {d \in [StorePaths -> MasterContents
                                   \cup {<<>>, <<Entry("Stop", "Stop"), StoreNl>>}] :
               /\ d[MasterZhFile] \in MasterContents
               /\ d[MasterEnFile] \in {NoStore, <<>>,
                                       <<Entry("Stop", "Stop"), StoreNl>>}
               /\ d[EnFile] = NoStore
               /\ d[ZhFile] = NoStore}
    /\ strings_backups = {}
    /\ swift_sources =
           << <<TextTok>> \o WrappedCall("Save", "Save") \o <<RpTok, NlTok>> >>
    /\ sLast = SOp("init", "", "none")
    /\ fault_count = 0
    /\ disk = [p \in Paths |->
                  IF p \in TargetFiles
                  THEN <<LetTok, Q("Save"), NlTok>> ELSE NoFile]
    /\ backup_files = <<>>
    /\ processed_files = <<>>
    /\ common_localizations =
           << [string |-> "Save", key |-> "Save", comment |-> "Save"] >>
    /\ lastOp = NoOp("init")
    /\ pfiles = [f \in PFiles |->
                    IF f = FileViewA
                    THEN << <<IndTok, TextTok, Q("Save"), RpTok>> >>
                    ELSE << <<TitleTok, Q("Stop")>> >>]
    /\ localizable_strings = {}
    /\ scan_results = [f \in PFiles |-> <<>>]
    /\ plan = [f \in PFiles |-> <<>>]
    /\ pLast = POp("init", FALSE, "none")
    /\ exclude_config = <<>>
    /\ smart_verdict = <<>>

\* `generate-en` of main(): write_english_file for the keys of the master
GenerateEn(fault) ==
    LET zh_keys == extract_keys_from_master(strings_disk[MasterZhFile])
    IN /\ zh_keys # {}
       /\ WriteEnglishFile(DictKeys(zh_keys), fault)

NextMaster ==
    \/ \E fault \in {"none", "backup", "write"}, choice \in {"y", "n"} :
           RunFullSync(fault, choice)
    \/ \E fault \in {"none", "write"} : GenerateEn(fault)
    \/ \E apply \in BOOLEAN : PreciseMain(apply)
    \/ Sync("none")

SpecMaster == InitMaster /\ [][NextMaster]_vars

----------------------------------------------------------------------------
(* The three batch loops over the Swift files, side by side                 *)

\* the loop over the files of extract_used_keys, where the read of the file
\* number failing raises: the except clause reports it and the walk goes on
RECURSIVE UsedKeysFrom(_, _, _, _)
UsedKeysFrom(sources, i, failing, fault) ==
    IF i > Len(sources) THEN {}
    ELSE LET f == IF i = failing THEN fault ELSE "none"
         IN (IF f = "none" THEN FindallKeys(UsedKeysPattern, sources[i]) ELSE {})
                \cup (IF ContinuesAfter(f)
                      THEN UsedKeysFrom(sources, i + 1, failing, fault)
                      ELSE {})

\* StringsSyncer.extract_used_keys() called on its own
ExtractUsedKeys(failing, fault) ==
    /\ fault = "none" => failing = 1
    /\ sLast' = [SOp("extract_used_keys", failing, fault) EXCEPT
                    !.used_keys = UsedKeysFrom(swift_sources, 1, failing, fault)]
    /\ UNCHANGED <<strings_disk, strings_backups, swift_sources, fault_count,
                   smartVars, preciseVars>>

\* A project with two target files of the SmartLocalizer, two files of the
\* PreciseLocalizer with a loaded store, and the Swift files of the syncer
InitBatch ==
    /\ disk \in {d \in [Paths ->
                        { <<TextTok, Q("Save"), RpTok, NlTok, LetTok, Q("Save"), NlTok>>,
                          <<ButtonTok, Q("Save"), RpTok, SemiTok, TitleTok, Q("Stop"), NlTok>>,
                          NoFile }] :
                    \A p \in Paths : (d[p] = NoFile) <=> (p \notin TargetFiles)}
    /\ backup_files = <<>>
    /\ processed_files = <<>>
    /\ common_localizations =
           << [string |-> "Save", key |-> "save_button", comment |-> "Save button"],
              [string |-> "Stop", key |-> "stop_button", comment |-> "Stop button"] >>
    /\ lastOp = NoOp("init")
    /\ fault_count = 0
    /\ pfiles = [f \in PFiles |->
                    IF f = FileViewA
                    THEN << <<TextTok, Q("Save"), RpTok>> >>
                    ELSE << <<TitleTok, Q("Stop")>> >>]
    /\ localizable_strings = {"Save", "Stop", "APP_ID"}
    /\ scan_results = [f \in PFiles |-> <<>>]
    /\ plan = [f \in PFiles |-> <<>>]
    /\ pLast = POp("init", FALSE, "none")
    /\ exclude_config = <<>>
    /\ smart_verdict = <<>>
    /\ strings_disk = [p \in StorePaths |-> NoStore]
    /\ strings_backups = {}
    /\ swift_sources =
           << <<TextTok>> \o WrappedCall("Stop", "Stop") \o <<RpTok, NlTok>>,
              <<TextTok>> \o WrappedCall("Save", "Save") \o <<RpTok, NlTok>> >>
    /\ sLast = SOp("init", "", "none")

NextBatch ==
    \/ \E ffile \in TargetFiles, fault \in Faults : Run(ffile, fault)
    \/ ScanProject
    \/ CreateReplacementPlan
    \/ \E ffile \in PFiles, fault \in {"none", "read", "write"} :
           ApplyReplacements(FALSE, ffile, fault)
    \/ \E failing \in 1..Len(swift_sources), fault \in {"none", "read"} :
           ExtractUsedKeys(failing, fault)

SpecBatch == InitBatch /\ [][NextBatch]_vars

----------------------------------------------------------------------------
(* Claims about SmartLocalizer, checked under SpecSmart *)

\* C1 (as claimed): whenever localize_file has changed a file's content, a
\* rollback that follows leaves that file with exactly the content it had
\* before localize_file was called.
C1_BackupIntegrity ==
    (/\ lastOp.op = "rollback"
     /\ lastOp.prev = "localize"
     /\ lastOp.fault = "none"
     /\ lastOp.ret > 0)
        => disk[lastOp.file] = lastOp.pre

\* C2 (as claimed): if the write-back step of localize_file fails, the source
\* file still holds its complete pre-edit content and its backup exists.
C2_AllOrNothingWrite ==
    (lastOp.op = "localize" /\ lastOp.fault = "write")
        => /\ disk[lastOp.file] = lastOp.pre
           /\ disk[BackupPath(lastOp.file)] # NoFile

\* C3 (as claimed): when localize_file returns without any replacement having
\* changed the content, no backup file of that file exists on disk and its
\* backup path is not in backup_files.
C3_NoOpCleanliness ==
    (lastOp.op = "localize" /\ lastOp.fault = "none" /\ ~lastOp.changed)
        => /\ disk[BackupPath(lastOp.file)] = NoFile
           /\ BackupPath(lastOp.file) \notin Range(backup_files)

\* C4 (as claimed): rollback restores every file that has a recorded backup
\* on disk from that backup and removes the backup; a file without one is
\* left unchanged.
C4_RollbackRestoresAndDiscards ==
    [][lastOp'.op = "rollback" =>
          \A f \in TargetFiles :
              IF BackupPath(f) \in Range(backup_files)
                     /\ disk[BackupPath(f)] # NoFile
              THEN /\ disk'[f] = disk[BackupPath(f)]
                   /\ disk'[BackupPath(f)] = NoFile
              ELSE disk'[f] = disk[f]]_vars

----------------------------------------------------------------------------
(* Claims about PreciseLocalizer, checked under SpecPrecise, and about the *)
(* two classifiers, checked under SpecClassify                             *)

\* number of non-overlapping occurrences of the token sequence pat
RECURSIVE Count(_, _)
Count(line, pat) ==
    IF line = <<>> THEN 0
    ELSE IF IsPrefixAt(line, pat)
        THEN 1 + Count(SubSeq(line, Len(pat) + 1, Len(line)), pat)
        ELSE Count(Tail(line), pat)

\* some positive UI pattern matches the line
PositiveMatch(line) == \E i \in 1..Len(ui_patterns) : PatternTexts(ui_patterns[i], line) # <<>>

FindingsOfLine(f, n) ==
    {i \in 1..Len(scan_results[f]) : scan_results[f][i].line_number = n}

\* C5: apply_replacements with dry_run = true changes no file (and nothing
\* else of the localizer's state).
C5_DryRunWritesNothing ==
    [][(pLast'.op = "apply" /\ pLast'.dry_run)
          => UNCHANGED <<pfiles, scan_results, plan, localizable_strings>>]_vars

\* C5 witness: a dry run was made of a plan that would change a file.
C5_Witness ==
    /\ pLast.op = "apply" /\ pLast.dry_run
    /\ \E f \in PFiles : /\ plan[f] # <<>>
                         /\ RewrittenLines(pfiles[f], plan[f]) # pfiles[f]

\* C6: a line that matches a positive UI pattern and an avoidance pattern
\* gives no finding in find_ui_strings, and is_localizable_string returns
\* False for a context that matches one of the configured exclude_contexts,
\* whatever the order of the list.
C6_AvoidancePrecedence ==
    /\ pLast.op = "scan" =>
           \A f \in PFiles : \A n \in 1..Len(pfiles[f]) :
               (PositiveMatch(pfiles[f][n]) /\ AvoidMatches(pfiles[f][n]) # {})
                   => FindingsOfLine(f, n) = {}
    /\ (\E i \in 1..Len(exclude_config.exclude_contexts) :
            ContextPatternMatches(exclude_config.exclude_contexts[i],
                                  smart_verdict.context))
           => ~smart_verdict.result

\* C6 witness: the scan met a line with a stored literal in a UI call that
\* also matches an avoidance pattern, and is_localizable_string was called
\* on an otherwise localizable literal whose context matches the last of
\* two exclude_contexts.
C6_Witness ==
    /\ pLast.op = "scan"
    /\ \E n \in 1..Len(pfiles[FileViewA]) :
           /\ PatternTexts("Text", pfiles[FileViewA][n]) # <<>>
           /\ PatternTexts("Text", pfiles[FileViewA][n])[1] \in localizable_strings
           /\ AvoidMatches(pfiles[FileViewA][n]) # {}
    /\ smart_verdict.string = "Save"
    /\ Len(exclude_config.exclude_contexts) = 2
    /\ ContextPatternMatches(exclude_config.exclude_contexts[2],
                             smart_verdict.context)
    /\ ~ContextPatternMatches(exclude_config.exclude_contexts[1],
                              smart_verdict.context)
    /\ ~HasTok(smart_verdict.context, NslTok)

\* C7 (as claimed): a literal that is a key of the loaded locale store never
\* appears in the findings of the scan.
C7_StoreKeysExcluded ==
    \A f \in PFiles : \A i \in 1..Len(scan_results[f]) :
        scan_results[f][i].text \notin localizable_strings

\* C7 (amended): every literal in the findings of the scan is a key of the
\* loaded locale store; a literal that is not a key never appears.
C7_FindingsAreStoreKeys ==
    \A f \in PFiles : \A i \in 1..Len(scan_results[f]) :
        scan_results[f][i].text \in localizable_strings

\* C7 witness: the scan reported a finding and left out a UI literal of a
\* line that no avoidance rule rejects, because it is not a key of the store.
C7_Witness ==
    /\ pLast.op = "scan"
    /\ \E f \in PFiles : scan_results[f] # <<>>
    /\ \E f \in PFiles : \E n \in 1..Len(pfiles[f]) :
           LET texts == PatternTexts("Text", pfiles[f][n])
           IN \E k \in 1..Len(texts) :
                  /\ texts[k] \notin localizable_strings
                  /\ ~is_code_logic(pfiles[f][n], texts[k])
                  /\ ~HasTok(pfiles[f][n], NslTok)
                  /\ \A i \in FindingsOfLine(f, n) :
                         scan_results[f][i].text # texts[k]

\* C8 (as claimed): the findings of a file hold at most one finding per
\* (line, literal).
C8_FindingsDeduplicated ==
    \A f \in PFiles : \A i, j \in 1..Len(scan_results[f]) :
        (/\ i # j
         /\ scan_results[f][i].line_number = scan_results[f][j].line_number)
            => scan_results[f][i].text # scan_results[f][j].text

\* C9 (as claimed): after scan, plan and apply, a line with two accepted
\* findings of different literals has both literals wrapped, neither twice.
C9_SameLineCombined ==
    pLast.stage = "applied" =>
        \A f \in PFiles : \A i, j \in 1..Len(scan_results[f]) :
            LET a == scan_results[f][i]
                b == scan_results[f][j]
            IN (a.line_number = b.line_number /\ a.text # b.text) =>
                   LET line == pfiles[f][a.line_number]
                   IN /\ Count(line, WrappedCall(a.text, a.text)) = 1
                      /\ Count(line, WrappedCall(b.text, b.text)) = 1
                      /\ Count(line, <<NslTok>>) = 2

\* the form of the literal that generate_replacement replaces
SelectedForm(original_line, text) ==
    IF Contains(original_line, <<TextTok, Q(text), RpTok>>)
    THEN <<TextTok, Q(text), RpTok>>
    ELSE IF Contains(original_line, <<ButtonTok, Q(text)>>)
    THEN <<ButtonTok, Q(text)>>
    ELSE <<Q(text)>>

\* C10 (as claimed): when the quoted literal occurs more than once on the
\* line, the replacement line has exactly one wrapped call, the others stay
\* raw.
C10_OnlyFirstOccurrenceWrapped ==
    \A f \in PFiles : \A i \in 1..Len(plan[f]) :
        LET e == plan[f][i]
        IN Count(e.original, <<Q(e.text)>>) >= 2 =>
               Count(e.replacement, WrappedCall(e.text, e.text)) = 1

\* C10 (amended): generate_replacement wraps every occurrence of the form it
\* selects (Text("lit"), else Button("lit", else the bare "lit"), so the
\* replacement has one wrapped call per occurrence of that form and no
\* occurrence of the Text or Button form left.
C10_EveryOccurrenceOfFormWrapped ==
    \A f \in PFiles : \A i \in 1..Len(plan[f]) :
        LET e == plan[f][i]
            form == SelectedForm(e.original, e.text)
        IN /\ Count(e.replacement, WrappedCall(e.text, e.text))
                  = Count(e.original, form)
           /\ form # <<Q(e.text)>> => Count(e.replacement, form) = 0

\* C10 witness: a planned line on which the selected form occurs twice.
C10_Witness ==
    \E f \in PFiles : \E i \in 1..Len(plan[f]) :
        Count(plan[f][i].original,
              SelectedForm(plan[f][i].original, plan[f][i].text)) >= 2

----------------------------------------------------------------------------
(* Claims about the plan entries and the rewriting passes *)

\* the line with every wrapped call of the literal turned back into the
\* quoted literal
Unwrapped(line, text) ==
    ReplaceAll(line, <<NslTok, Q(text), CmtTok, Q(text), RpTok>>, <<Q(text)>>)

\* C11: in every entry of the plan the replacement is the entry's original
\* line with the quoted literal replaced by
\* NSLocalizedString("<literal>", comment: "<literal>") and nothing else
\* changed: turning the wrapped calls back gives the original line, and at
\* least one wrapped call is there.
C11_PlanEntryOnlyWrapsLiteral ==
    \A f \in PFiles : \A i \in 1..Len(plan[f]) :
        LET e == plan[f][i]
        IN /\ Unwrapped(e.replacement, e.text) = e.original
           /\ Count(e.replacement,
                    <<NslTok, Q(e.text), CmtTok, Q(e.text), RpTok>>) >= 1
           /\ Count(e.original, <<NslTok>>) = 0

\* C11 witness: a plan entry for a Text(...) call on a line that holds
\* another statement as well.
C11_Witness ==
    \E f \in PFiles : \E i \in 1..Len(plan[f]) :
        /\ Contains(plan[f][i].original, <<TextTok, Q(plan[f][i].text), RpTok>>)
        /\ HasTok(plan[f][i].original, SemiTok)
        /\ \E t \in Strings \ {plan[f][i].text} :
               HasTok(plan[f][i].replacement, Q(t))

\* the entry that apply_replacements leaves in line n: the last one, in the
\* order of application, that names line n
RECURSIVE LastEntryFor(_, _)
LastEntryFor(entries, n) ==
    IF entries[Len(entries)].line_number = n THEN entries[Len(entries)]
    ELSE LastEntryFor(SubSeq(entries, 1, Len(entries) - 1), n)

\* C12: apply_replacements applies the entries of a file in non-increasing
\* order of line number, leaves the number of lines as it is, and writes
\* each replacement to the line its entry names; the other lines stay.
C12_EditOrdering ==
    [][(pLast'.op = "apply" /\ ~pLast'.dry_run /\ pLast'.fault = "none") =>
          \A f \in PFiles :
              LET applied == SortedDescending(plan[f])
              IN /\ \A i \in 1..(Len(applied) - 1) :
                        applied[i].line_number >= applied[i + 1].line_number
                 /\ Len(pfiles'[f]) = Len(pfiles[f])
                 /\ \A n \in 1..Len(pfiles[f]) :
                        IF \E i \in 1..Len(applied) : applied[i].line_number = n
                        THEN pfiles'[f][n] = LastEntryFor(applied, n).replacement
                        ELSE pfiles'[f][n] = pfiles[f][n]]_vars

\* C12 witness: a plan with entries for two different lines of one file
\* has been applied.
C12_Witness ==
    /\ pLast.stage = "applied"
    /\ \E f \in PFiles : \E i, j \in 1..Len(plan[f]) :
           /\ plan[f][i].line_number < plan[f][j].line_number
           /\ i < j
           /\ pfiles[f][plan[f][i].line_number] = plan[f][i].replacement
           /\ pfiles[f][plan[f][j].line_number] = plan[f][j].replacement

\* C13 (as claimed): a localize_file pass over the unchanged result of a
\* pass that changed the file changes nothing.
C13_IdempotentRewriting ==
    [][(/\ lastOp.op = "localize" /\ lastOp.fault = "none" /\ lastOp.changed
        /\ lastOp'.op = "localize" /\ lastOp'.fault = "none"
        /\ lastOp'.file = lastOp.file)
          => ~lastOp'.changed]_vars

\* C14 (as claimed): localize_file leaves an occurrence of a configured
\* string in a plain assignment (let key = "...") unchanged.
C14_OnlyUiContextReplaced ==
    (lastOp.op = "localize" /\ lastOp.fault = "none") =>
        \A t \in Strings :
            Count(disk[lastOp.file], <<LetTok, Q(t)>>)
                = Count(lastOp.pre, <<LetTok, Q(t)>>)

----------------------------------------------------------------------------
(* Claims about StringsSyncer, checked under SpecSync *)

\* the keys of the wrapped calls in the Swift files
WrappedKeys(sources) ==
    UNION {KeysOfWrappedCalls(sources[i]) : i \in 1..Len(sources)}

\* C15: a sync run that directly follows a sync run adds no key to any
\* store and writes no .strings file.
C15_SyncIdempotent ==
    [][(sLast.op = "sync" /\ sLast'.op = "sync") =>
          /\ sLast'.added = 0
          /\ sLast'.io = <<>>
          /\ strings_disk' = strings_disk]_vars

\* C15 witness: a second sync run in a row over Swift files that use keys.
C15_Witness ==
    /\ sLast.op = "sync" /\ sLast.prev = "sync"
    /\ WrappedKeys(swift_sources) # {}
    /\ sLast.added = 0

\* C16 (as claimed): the used keys that sync collects, and the keys that
\* collect_new_strings returns, are exactly the key arguments of the wrapped
\* calls in the Swift files.
C16_UsedKeysAreWrappedKeys ==
    sLast.op = "sync" =>
        /\ sLast.used_keys = WrappedKeys(swift_sources)
        /\ collect_new_strings(swift_sources) = WrappedKeys(swift_sources)

\* C17 (as claimed): after a sync run, every key used in the Swift files and
\* missing from the English store before the run is in the English store
\* with the key as value and in the Chinese store with some value, and no
\* other key was added to either store.
C17_SyncAddsExactlyNewKeys ==
    (sLast.op = "sync" /\ sLast.fault = "none") =>
        LET new_keys == WrappedKeys(swift_sources) \ StoreKeys(sLast.pre[EnFile])
        IN /\ \A k \in new_keys :
                  /\ <<k, k>> \in StoreEntries(strings_disk[EnFile])
                  /\ k \in StoreKeys(strings_disk[ZhFile])
           /\ \A f \in {EnFile, ZhFile} :
                  StoreKeys(strings_disk[f])
                      \subseteq StoreKeys(sLast.pre[f]) \cup new_keys

\* C18: after update_strings_file has run without a failing write, the
\* previous content of the file is a prefix of its content, and what was
\* appended holds the section marker before any entry.
C18_UpdateAppendOnly ==
    (sLast.op = "update" /\ sLast.fault # "write") =>
        LET old == IF sLast.pre = NoStore THEN <<>> ELSE sLast.pre
            cur == strings_disk[sLast.file]
            appended == SubSeq(cur, Len(old) + 1, Len(cur))
        IN \/ cur = sLast.pre
           \/ /\ cur # NoStore
              /\ IsPrefixAt(cur, old)
              /\ \E m \in 1..Len(appended) :
                     /\ appended[m] = Marker
                     /\ \A i \in 1..(m - 1) : appended[i].k # "ENTRY"
                     /\ \E i \in (m + 1)..Len(appended) : appended[i].k = "ENTRY"

\* C18 witness: an update appended a new entry to a file that had one.
C18_Witness ==
    /\ sLast.op = "update" /\ sLast.fault = "none"
    /\ sLast.pre # NoStore /\ StoreKeys(sLast.pre) # {}
    /\ strings_disk[sLast.file] # sLast.pre
    /\ StoreKeys(strings_disk[sLast.file]) # StoreKeys(sLast.pre)

C20_FailedWriteLeavesFile ==
    (sLast.op \in {"update", "write_english"} /\ sLast.fault = "write") =>
        strings_disk[sLast.file] = sLast.pre

----------------------------------------------------------------------------
(* Claims about the master workflow, checked under SpecMaster, and about    *)
(* the convergence of the stores of the syncer, checked under SpecSync      *)

\* C21 (as claimed): an entry of a derived store whose key the master store
\* does not hold before a sync run is in that derived store, with the same
\* value, after the run.
C21_OrphansKept ==
    /\ (sLast.op = "run_full_sync" /\ sLast.fault = "none") =>
           \A e \in StoreEntries(sLast.pre[MasterEnFile]) :
               e[1] \notin DictKeys(extract_keys_from_master(sLast.pre[MasterZhFile]))
                   => e \in StoreEntries(strings_disk[MasterEnFile])
    /\ (sLast.op = "sync" /\ sLast.fault = "none") =>
           \A e \in StoreEntries(sLast.pre[ZhFile]) :
               e[1] \notin StoreKeys(sLast.pre[EnFile])
                   => e \in StoreEntries(strings_disk[ZhFile])

\* number of entries of a key in a .strings file
EntryCount(content, key) ==
    IF content = NoStore THEN 0
    ELSE Cardinality({i \in 1..Len(content) :
                         content[i].k = "ENTRY" /\ content[i].s = key})

C23_DerivedConvergesToMaster ==
    (/\ sLast.op = "sync" /\ sLast.fault = "none"
     /\ WrappedKeys(swift_sources) \ StoreKeys(sLast.pre[EnFile]) # {}) =>
        StoreKeys(strings_disk[EnFile]) \subseteq StoreKeys(strings_disk[ZhFile])

\* the lines that are records by the grammar: not inside /* ... */, not a
\* comment line, and of the form "<key>" = "<value>"; after trimming
RECURSIVE GrammarRecords(_, _, _)
GrammarRecords(lines, i, in_block) ==
    IF i > Len(lines) THEN <<>>
    ELSE LET line == StripLine(lines[i])
             opens == line # <<>> /\ Head(line) = BlockOpen
             closes == line # <<>> /\ line[Len(line)] = BlockClose
             record == /\ ~in_block
                       /\ Len(line) = 1
                       /\ line[1].k = "ENTRY"
         IN (IF record THEN <<line[1]>> ELSE <<>>)
                \o GrammarRecords(lines, i + 1,
                                  (in_block \/ opens) /\ ~closes)

GrammarDict(content) ==
    IF content = NoStore THEN {}
    ELSE DictOf(GrammarRecords(SplitOn(content, StoreNl), 1, FALSE))

\* C24 (as claimed): the records that extract_keys_from_master and
\* load_localizable_strings read from the master file are those of the
\* lines that are records by the grammar.
C24_RecordGrammar ==
    /\ sLast.op = "run_full_sync" =>
           sLast.records = GrammarDict(sLast.pre[MasterZhFile])
    /\ pLast.op = "main" =>
           localizable_strings = DictKeys(GrammarDict(strings_disk[MasterZhFile]))

\* C26: a run over a missing master store file (run_full_sync and the main
\* of precise_localizer.py over the master file, sync over the English file)
\* creates, changes and backs up no file.
C26_MissingMasterTouchesNothing ==
    [][/\ (sLast'.op = "run_full_sync" /\ sLast'.pre[MasterZhFile] = NoStore) =>
              /\ strings_disk' = sLast'.pre
              /\ strings_backups' = sLast'.pre_backups
              /\ sLast' # sLast => disk' = disk
       /\ (sLast'.op = "sync" /\ sLast'.pre[EnFile] = NoStore) =>
              /\ strings_disk' = sLast'.pre
              /\ strings_backups' = sLast'.pre_backups
       /\ (pLast'.op = "main" /\ strings_disk[MasterZhFile] = NoStore) =>
              /\ pLast'.stage = "no_store"
              /\ UNCHANGED <<pfiles, strings_disk, strings_backups, disk>>]_vars

\* C26 witness: run_full_sync and the main of precise_localizer.py have both
\* stopped over a missing master file.
C26_Witness ==
    /\ sLast.op = "run_full_sync"
    /\ sLast.pre[MasterZhFile] = NoStore
    /\ sLast.phases = <<"backup_failed">>
    /\ pLast.op = "main" /\ pLast.stage = "no_store"

----------------------------------------------------------------------------
(* Claims about the batch loops, checked under SpecBatch, and about single  *)
(* operations of the three tools                                            *)

\* C25: when the work on one file raises in SmartLocalizer.run, in
\* apply_replacements or in extract_used_keys, every other file is processed
\* as without the failure and the failing file is not counted as processed.
C25_PerFileErrorIsolation ==
    [][/\ (lastOp'.op = "run" /\ lastOp' # lastOp /\ lastOp'.fault # "none") =>
              /\ \A g \in TargetFiles \ {lastOp'.file} :
                     LET res == ApplyLocalizations(disk[g], 0, common_localizations)
                     IN /\ disk'[g] = res.content
                        /\ res.content # disk[g] =>
                               /\ disk'[BackupPath(g)] = disk[g]
                               /\ g \in Range(processed_files')
              /\ lastOp'.file \notin Range(processed_files')
       /\ (pLast'.op = "apply" /\ ~pLast'.dry_run /\ pLast'.fault # "none") =>
              Cardinality({f \in PFiles :
                              /\ plan[f] # <<>>
                              /\ pfiles'[f] # RewrittenLines(pfiles[f], plan[f])}) <= 1
       /\ (sLast'.op = "extract_used_keys" /\ sLast'.fault # "none") =>
              sLast'.used_keys =
                  UNION {FindallKeys(UsedKeysPattern, swift_sources[i]) :
                            i \in (1..Len(swift_sources)) \ {sLast'.file}}]_vars

\* C25 witness: a run in which the work on one target file raised has
\* rewritten the other one, and apply_replacements, with a failure on one
\* file, has rewritten the other one.
C25_Witness ==
    /\ lastOp.op = "run" /\ lastOp.fault # "none"
    /\ \E g \in TargetFiles \ {lastOp.file} :
           /\ disk[g] # lastOp.pre[g]
           /\ g \in Range(processed_files)
    /\ pLast.op = "apply" /\ pLast.fault # "none"
    /\ \E f \in PFiles : \E i \in 1..Len(plan[f]) :
           pfiles[f][plan[f][i].line_number] = plan[f][i].replacement

\* C27 (as claimed): apply_replacements leaves in every line it rewrites the
\* line as it was with the literal replaced by the wrapped form, leading
\* whitespace included.
C27_IndentationPreserved ==
    [][(pLast'.op = "apply" /\ pLast'.stage = "applied") =>
          \A f \in PFiles : \A n \in 1..Len(pfiles[f]) :
              LET applied == SortedDescending(plan[f])
              IN (\E i \in 1..Len(applied) : applied[i].line_number = n) =>
                     pfiles'[f][n] =
                         generate_replacement(pfiles[f][n],
                                              LastEntryFor(applied, n).text)]_vars

\* C28 (as claimed): a localize_file call that changes nothing leaves the
\* backup that an earlier call, which changed the file, has left.
C28_BackupSurvivesNoOp ==
    [][(/\ lastOp'.op = "localize" /\ lastOp'.fault = "none"
        /\ ~lastOp'.changed /\ lastOp' # lastOp
        /\ fault_count = 0
        /\ disk[BackupPath(lastOp'.file)] # NoFile
        /\ disk[BackupPath(lastOp'.file)] # disk[lastOp'.file])
          => disk'[BackupPath(lastOp'.file)] = disk[BackupPath(lastOp'.file)]]_vars

\* number of entries in a .strings file
NumEntries(content) ==
    IF content = NoStore THEN 0
    ELSE Cardinality({i \in 1..Len(content) : content[i].k = "ENTRY"})

\* C30 (as claimed): the count update_strings_file returns is the number of
\* entries it has added to the file, and 0 when the write failed.
C30_AddedCountIsPersisted ==
    sLast.op = "update" =>
        /\ NumEntries(sLast.pre) + sLast.added
               = NumEntries(strings_disk[sLast.file])
        /\ sLast.fault = "write" => sLast.added = 0

====
